---- MODULE Spec2Model ----
(***************************************************************************)
(* Model of pyolib/opensndctrl.py: the Open Sound Control objects of pyo.   *)
(*                                                                         *)
(* One behaviour follows one object: an OscReceive, an OscListReceive, an  *)
(* OscDataReceive or an OscDataSend (variable cls).  The Python classes are *)
(* modelled statement by statement.  The C level objects they drive         *)
(* (OscReceiver_base, OscReceive_base, OscListReceiver_base,                *)
(* OscListReceive_base, OscDataReceive_base, OscDataSend_base) and the      *)
(* helpers of _core (convertArgsToLists, wrap) are not part of the Python   *)
(* file; they are modelled from the design document (registry of pending    *)
(* targets, slot sampling once per block).                                  *)
(*                                                                         *)
(* Python lists are sequences; a Python index i is position i + 1.         *)
(* An exception leaving a method is recorded in call.err together with the  *)
(* state the method had reached when it was raised.                         *)
(***************************************************************************)
EXTENDS Integers, Sequences, FiniteSets, TLC

VARIABLES
    cls,           \* class of the object this behaviour follows
    num,           \* self._num (1 for OscReceive)
    address,       \* self._address (receive side)
    base_objs,     \* self._base_objs
    mainReceiver,  \* self._mainReceiver: registered address -> pending target
    addresses,     \* OscDataSend._addresses: address -> target
    listener,      \* the listener object and the handler the attributes name
    sent,          \* the base sends attempted by the last call, when it was a send
    delivered,     \* history: last update accepted for an address since it was registered
    removed,       \* history: addresses a delAddress that returned has named, not added again since
    call           \* history: the last method call, its arguments and its outcome

vars == <<cls, num, address, base_objs, mainReceiver, addresses, listener, sent, delivered,
          removed, call>>

---------------------------------------------------------------------------
(* Bounds of the model *)

NumAddr == 2        \* size of the address universe
MaxInit == 2        \* longest address list given to a constructor
MaxPath == 2        \* longest path list given to addAddress / delAddress
MaxNum == 2         \* largest width num of an OscListReceive
MaxTargets == 3     \* most send targets held by an OscDataSend
BlockSize == 2      \* samples per render block
MaxLevel == 1       \* control values are 0, BlockSize, ..., MaxLevel * BlockSize

AddrNames == <<"/a", "/b", "/c", "/d", "/e", "/f">>
Addrs == {AddrNames[i] : i \in 1..NumAddr}
Values == {k * BlockSize : k \in 0..MaxLevel}
Muls == {1, 2}

NonEmptySeqs(S, n) == UNION {[1..k -> S] : k \in 1..n}
Range(s) == {s[i] : i \in 1..Len(s)}

---------------------------------------------------------------------------
(* Python list and _core helpers *)

\* x in s
In(x, s) == \E i \in 1..Len(s) : s[i] = x

\* s.index(x) as a Python index (0-based); -1 stands for ValueError
Index(s, x) ==
    IF In(x, s) THEN (CHOOSE i \in 1..Len(s) : s[i] = x /\ \A k \in 1..(i-1) : s[k] # x) - 1
    ELSE -1

\* s.pop(i) for 0 <= i < len(s): the list that is left
PopAt(s, i) == [k \in 1..(Len(s) - 1) |-> IF k <= i THEN s[k] ELSE s[k + 1]]

\* s[lo:hi] with Python's slice rules (negative bounds count from the end)
Clamp(i, n) == IF i < 0 THEN (IF i + n < 0 THEN 0 ELSE i + n) ELSE (IF i > n THEN n ELSE i)
Slice(s, lo, hi) ==
    LET a == Clamp(lo, Len(s))
        b == Clamp(hi, Len(s))
    IN  IF a >= b THEN <<>> ELSE [k \in 1..(b - a) |-> s[a + k]]

\* wrap(arg, i) of _core: arg[i % len(arg)]
Wrap(arg, i) == arg[(i % Len(arg)) + 1]

\* reversed(s)
Reversed(s) == [k \in 1..Len(s) |-> s[Len(s) + 1 - k]]

Max(a, b) == IF a >= b THEN a ELSE b

---------------------------------------------------------------------------
(* C level objects, modelled from the design document *)

\* initial pending target of a newly registered address (width n)
InitTarget(n) == [j \in 1..n |-> 0]

\* OscReceiver_base(port, address) / OscListReceiver_base(port, address, num)
MainNew(adrs, n) == [x \in Range(adrs) |-> InitTarget(n)]

\* mainReceiver.addAddress(p): registers p with a fresh pending target
MainAdd(m, p, n) == [x \in (DOMAIN m) \cup {p} |-> IF x = p THEN InitTarget(n) ELSE m[x]]

\* mainReceiver.delAddress(path): unregisters every address of path it holds
MainDel(m, path) == [x \in (DOMAIN m) \ Range(path) |-> m[x]]

\* mainReceiver.setValue(p, val) and the arrival of a network message:
\* an unknown address or a wrong arity is dropped, else the pending target
\* is overwritten
MainSet(m, p, val, n) ==
    IF p \in DOMAIN m /\ Len(val) = n THEN [m EXCEPT ![p] = val] ELSE m

\* OscReceive_base(mainReceiver, address, mul, add) and
\* OscListReceive_base(mainReceiver, address, j, mul, add): one slot
Slot(p, j, mul, add) ==
    [address |-> p, j |-> j, mul |-> mul, add |-> add, interpolation |-> TRUE,
     previous |-> 0]

---------------------------------------------------------------------------
(* OscReceive / OscListReceive / OscDataReceive: construction *)

\* OscReceive.__init__: lmax slots, lmax the longest of address, mul, add
RecvInit(adrs, mul, add) ==
    LET lmax == Max(Len(adrs), Max(Len(mul), Len(add))) IN
    [address |-> adrs,
     mainReceiver |-> MainNew(adrs, 1),
     base_objs |-> [i \in 1..lmax |->
                      Slot(Wrap(adrs, i - 1), 0, Wrap(mul, i - 1), Wrap(add, i - 1))]]

\* OscListReceive.__init__: for i in range(lmax) for j in range(num)
ListInit(adrs, n, mul, add) ==
    LET lmax == Max(Len(adrs), Max(Len(mul), Len(add))) IN
    [address |-> adrs,
     mainReceiver |-> MainNew(adrs, n),
     base_objs |-> [k \in 1..(lmax * n) |->
                      Slot(Wrap(adrs, (k - 1) \div n), (k - 1) % n,
                           Wrap(mul, (k - 1) \div n), Wrap(add, (k - 1) \div n))]]

\* OscDataReceive.__init__: self._address is the list the C object holds
DataInit(adrs) ==
    [address |-> adrs, mainReceiver |-> <<>>, base_objs |-> <<>>]

---------------------------------------------------------------------------
(* addAddress, receive side *)

\* the test `p not in self._address`
NotRegistered_Always(p, adrs) == TRUE
NotRegistered(p, adrs) == ~In(p, adrs)

\* OscReceive.addAddress: for i, p in enumerate(path)
RECURSIVE RecvAddLoop(_, _, _, _, _)
RecvAddLoop(st, path, i, mul, add) ==
    IF i >= Len(path) THEN st
    ELSE LET p == path[i + 1] IN
         IF NotRegistered(p, st.address)
         THEN RecvAddLoop(
                [address |-> Append(st.address, p),
                 mainReceiver |-> MainAdd(st.mainReceiver, p, 1),
                 base_objs |-> Append(st.base_objs, Slot(p, 0, Wrap(mul, i), Wrap(add, i)))],
                path, i + 1, mul, add)
         ELSE RecvAddLoop(st, path, i + 1, mul, add)

\* OscListReceive.addAddress: extends the slot list by num slots
RECURSIVE ListAddLoop(_, _, _, _, _, _)
ListAddLoop(st, path, i, n, mul, add) ==
    IF i >= Len(path) THEN st
    ELSE LET p == path[i + 1] IN
         IF NotRegistered(p, st.address)
         THEN ListAddLoop(
                [address |-> Append(st.address, p),
                 mainReceiver |-> MainAdd(st.mainReceiver, p, n),
                 base_objs |-> st.base_objs \o
                     [j \in 1..n |-> Slot(p, j - 1, Wrap(mul, i), Wrap(add, i))]],
                path, i + 1, n, mul, add)
         ELSE ListAddLoop(st, path, i + 1, n, mul, add)

\* OscDataReceive.addAddress: the C object appends p to the shared list
RECURSIVE DataAddLoop(_, _, _)
DataAddLoop(adrs, path, i) ==
    IF i >= Len(path) THEN adrs
    ELSE LET p == path[i + 1] IN
         IF NotRegistered(p, adrs)
         THEN DataAddLoop(Append(adrs, p), path, i + 1)
         ELSE DataAddLoop(adrs, path, i + 1)

---------------------------------------------------------------------------
(* delAddress, receive side *)

\* indexes = [self._address.index(p) for p in path]
Indexes(adrs, path) == [k \in 1..Len(path) |-> Index(adrs, path[k])]

\* for ind in reversed(indexes): self._address.pop(ind); self._base_objs.pop(ind)
RECURSIVE RecvPopLoop(_, _, _)
RecvPopLoop(adrs, objs, inds) ==
    IF inds = <<>> THEN [address |-> adrs, base_objs |-> objs, err |-> "none"]
    ELSE LET ind == Head(inds) IN
         IF ind >= Len(adrs)
         THEN [address |-> adrs, base_objs |-> objs, err |-> "IndexError"]
         ELSE IF ind >= Len(objs)
         THEN [address |-> PopAt(adrs, ind), base_objs |-> objs, err |-> "IndexError"]
         ELSE RecvPopLoop(PopAt(adrs, ind), PopAt(objs, ind), Tail(inds))

\* OscReceive.delAddress
RecvDel(st, path) ==
    LET m == MainDel(st.mainReceiver, path) IN
    IF \E k \in 1..Len(path) : ~In(path[k], st.address)
    THEN [address |-> st.address, base_objs |-> st.base_objs, mainReceiver |-> m,
          err |-> "ValueError"]
    ELSE LET r == RecvPopLoop(st.address, st.base_objs, Reversed(Indexes(st.address, path)))
         IN  [address |-> r.address, base_objs |-> r.base_objs, mainReceiver |-> m,
              err |-> r.err]

\* for i in reversed(range(first, first+self._num)): self._base_objs.pop(i)
RECURSIVE PopRange(_, _, _)
PopRange(objs, first, i) ==
    IF i < first THEN [base_objs |-> objs, err |-> "none"]
    ELSE IF i >= Len(objs) THEN [base_objs |-> objs, err |-> "IndexError"]
    ELSE PopRange(PopAt(objs, i), first, i - 1)

RECURSIVE ListPopLoop(_, _, _, _)
ListPopLoop(adrs, objs, inds, n) ==
    IF inds = <<>> THEN [address |-> adrs, base_objs |-> objs, err |-> "none"]
    ELSE LET ind == Head(inds) IN
         IF ind >= Len(adrs)
         THEN [address |-> adrs, base_objs |-> objs, err |-> "IndexError"]
         ELSE LET r == PopRange(objs, ind * n, ind * n + n - 1) IN
              IF r.err # "none"
              THEN [address |-> PopAt(adrs, ind), base_objs |-> r.base_objs, err |-> r.err]
              ELSE ListPopLoop(PopAt(adrs, ind), r.base_objs, Tail(inds), n)

\* OscListReceive.delAddress
ListDel(st, path, n) ==
    LET m == MainDel(st.mainReceiver, path) IN
    IF \E k \in 1..Len(path) : ~In(path[k], st.address)
    THEN [address |-> st.address, base_objs |-> st.base_objs, mainReceiver |-> m,
          err |-> "ValueError"]
    ELSE LET r == ListPopLoop(st.address, st.base_objs,
                              Reversed(Indexes(st.address, path)), n)
         IN  [address |-> r.address, base_objs |-> r.base_objs, mainReceiver |-> m,
              err |-> r.err]

\* OscDataReceive.delAddress: for p in path: index = self._address.index(p);
\* the C object deletes that position of the shared list
RECURSIVE DataDelLoop(_, _)
DataDelLoop(adrs, path) ==
    IF path = <<>> THEN [address |-> adrs, err |-> "none"]
    ELSE LET index == Index(adrs, Head(path)) IN
         IF index < 0 THEN [address |-> adrs, err |-> "ValueError"]
         ELSE DataDelLoop(PopAt(adrs, index), Tail(path))

---------------------------------------------------------------------------
(* __getitem__ *)

\* OscReceive.__getitem__(i): the key is an address (key.str, key.s) or an
\* integer (key.i)
RecvGetItem(st, key) ==
    IF key.str
    THEN IF In(key.s, st.address)
         THEN IF Index(st.address, key.s) < Len(st.base_objs)
              THEN [ret |-> <<st.base_objs[Index(st.address, key.s) + 1]>>, err |-> "none"]
              ELSE [ret |-> <<>>, err |-> "IndexError"]
         ELSE [ret |-> <<>>, err |-> "ValueError"]
    ELSE IF key.i < Len(st.base_objs)
         THEN IF key.i >= -Len(st.base_objs)
              THEN [ret |-> <<st.base_objs[(IF key.i < 0 THEN key.i + Len(st.base_objs)
                                            ELSE key.i) + 1]>>,
                    err |-> "none"]
              ELSE [ret |-> <<>>, err |-> "IndexError"]
         ELSE [ret |-> <<>>, err |-> "printed"]

\* OscListReceive.__getitem__(i): a slice of num slots
ListGetItem(st, key, n) ==
    IF key.str
    THEN IF In(key.s, st.address)
         THEN [ret |-> Slice(st.base_objs, Index(st.address, key.s) * n,
                             Index(st.address, key.s) * n + n), err |-> "none"]
         ELSE [ret |-> <<>>, err |-> "ValueError"]
    ELSE IF key.i < Len(st.base_objs)
         THEN [ret |-> Slice(st.base_objs, key.i * n, key.i * n + n), err |-> "none"]
         ELSE [ret |-> <<>>, err |-> "printed"]

---------------------------------------------------------------------------
(* OscDataSend *)

\* OscDataSend_base(types, port, address, host); id stands for the identity
\* of the Python object
Target(types, port, adr, host, id) ==
    [types |-> types, port |-> port, address |-> adr, host |-> host, id |-> id]

Ids(objs) == {objs[k].id : k \in 1..Len(objs)}

\* the identities of n newly created objects, none of them alive in objs
RECURSIVE FreshIds(_, _)
FreshIds(used, n) ==
    IF n = 0 THEN <<>>
    ELSE LET id == CHOOSE i \in 1..(Cardinality(used) + 1) : i \notin used
         IN  <<id>> \o FreshIds(used \cup {id}, n - 1)

\* for i, adr in enumerate(address): self._addresses[adr] = objs[i]
RECURSIVE MapLoop(_, _, _, _)
MapLoop(m, adrs, objs, i) ==
    IF i >= Len(adrs) THEN m
    ELSE MapLoop([x \in (DOMAIN m) \cup {adrs[i + 1]} |->
                     IF x = adrs[i + 1] THEN objs[i + 1] ELSE m[x]],
                 adrs, objs, i + 1)

\* the objects built by __init__ and addAddress: lmax of them
NewTargets(used, types, port, adrs, host) ==
    LET lmax == Max(Max(Len(types), Len(port)), Max(Len(adrs), Len(host)))
        ids == FreshIds(used, lmax)
    IN  [i \in 1..lmax |->
            Target(Wrap(types, i - 1), Wrap(port, i - 1), Wrap(adrs, i - 1),
                   Wrap(host, i - 1), ids[i])]

\* OscDataSend.__init__
SendInit(types, port, adrs, host) ==
    LET objs == NewTargets({}, types, port, adrs, host)
    IN  [base_objs |-> objs, addresses |-> MapLoop(<<>>, adrs, objs, 0)]

\* OscDataSend.addAddress
SendAdd(st, types, port, adrs, host) ==
    LET objs == NewTargets(Ids(st.base_objs), types, port, adrs, host)
    IN  [base_objs |-> st.base_objs \o objs,
         addresses |-> MapLoop(st.addresses, adrs, objs, 0)]

\* list.remove(x): drops the first element equal to x
Remove(s, x) == PopAt(s, Index(s, x))

\* OscDataSend.delAddress
RECURSIVE SendDelLoop(_, _)
SendDelLoop(st, path) ==
    IF path = <<>> THEN [base_objs |-> st.base_objs, addresses |-> st.addresses, err |-> "none"]
    ELSE LET p == Head(path) IN
         IF p \notin DOMAIN st.addresses
         THEN [base_objs |-> st.base_objs, addresses |-> st.addresses, err |-> "KeyError"]
         ELSE IF ~In(st.addresses[p], st.base_objs)
         THEN [base_objs |-> st.base_objs, addresses |-> st.addresses, err |-> "ValueError"]
         ELSE SendDelLoop(
                [base_objs |-> Remove(st.base_objs, st.addresses[p]),
                 addresses |-> [x \in (DOMAIN st.addresses) \ {p} |-> st.addresses[x]]],
                Tail(path))

\* obj.send(msg) of the C object: the message is sent when it matches the
\* target's type signature; a mismatch is reported and that send is given up
BaseSend(obj, msg) == [id |-> obj.id, address |-> obj.address, ok |-> (msg = obj.types)]

\* [obj.send(msg) for obj in self._base_objs]
SendAll_Abort(objs, msg) ==
    LET bad == {k \in 1..Len(objs) : ~BaseSend(objs[k], msg).ok}
        last == IF bad = {} THEN Len(objs) ELSE CHOOSE k \in bad : \A h \in bad : k <= h
    IN  [k \in 1..last |-> BaseSend(objs[k], msg)]
SendAll(objs, msg) == [k \in 1..Len(objs) |-> BaseSend(objs[k], msg)]

\* OscDataSend.send(msg, address); address "None" is the broadcast
SendMsg(st, msg, adr) ==
    IF adr = "None" THEN [sent |-> SendAll(st.base_objs, msg), err |-> "none"]
    ELSE IF adr \in DOMAIN st.addresses
         THEN [sent |-> <<BaseSend(st.addresses[adr], msg)>>, err |-> "none"]
         ELSE [sent |-> <<>>, err |-> "KeyError"]

---------------------------------------------------------------------------
(* Control values: setInterpolation, setValue, network arrival, sampling *)

\* [obj.setInterpolation(x) for obj in self._base_objs]
SetInterp(objs, x) == [k \in 1..Len(objs) |-> [objs[k] EXCEPT !.interpolation = x]]

\* a slot on the arrival of an accepted target for its address: with
\* interpolation disabled it jumps at once (previous := target := new value)
SlotArrive(s, p, val) ==
    IF s.address = p /\ ~s.interpolation /\ s.j < Len(val)
    THEN [s EXCEPT !.previous = val[s.j + 1]]
    ELSE s

\* delivery of (p, val) to the registry: the C level of setValue and of the
\* arrival of a network message
Deliver(st, p, val, n) ==
    IF p \in DOMAIN st.mainReceiver /\ Len(val) = n
    THEN [mainReceiver |-> MainSet(st.mainReceiver, p, val, n),
          base_objs |-> [k \in 1..Len(st.base_objs) |-> SlotArrive(st.base_objs[k], p, val)]]
    ELSE [mainReceiver |-> st.mainReceiver, base_objs |-> st.base_objs]

\* the address of the i-th round of setValue: wrap(path, i)
PathAt_First(path, i) == path[1]
PathAt(path, i) == Wrap(path, i)

\* the value passed on by setValue for the i-th path: wrap(value, i)
ValueAt_First(value, i) == value[1]
ValueAt(value, i) == Wrap(value, i)

\* OscReceive.setValue: for i in range(lmax)
RECURSIVE RecvSetLoop(_, _, _, _, _)
RecvSetLoop(st, adrs, path, value, i) ==
    IF i >= Max(Len(path), Len(value)) THEN st
    ELSE LET p == PathAt(path, i) IN
         IF In(p, adrs)
         THEN LET d == Deliver(st, p, <<ValueAt(value, i)>>, 1)
              IN  RecvSetLoop([mainReceiver |-> d.mainReceiver, base_objs |-> d.base_objs,
                               err |-> st.err], adrs, path, value, i + 1)
         ELSE RecvSetLoop([st EXCEPT !.err = "printed"], adrs, path, value, i + 1)

\* OscListReceive.setValue; value is a list of floats (nested FALSE) or a
\* list of lists (nested TRUE); value[0] of an empty list raises IndexError
RECURSIVE ListSetLoop(_, _, _, _, _, _)
ListSetLoop(st, adrs, path, value, n, i) ==
    IF i >= Len(path) THEN st
    ELSE LET p == PathAt(path, i) IN
         IF In(p, adrs)
         THEN IF Len(value.v) = 0
              THEN [st EXCEPT !.err = "IndexError"]
              ELSE LET val == IF value.nested THEN Wrap(value.v, i) ELSE value.v IN
                   IF Len(val) = n
                   THEN LET d == Deliver(st, p, val, n)
                        IN  ListSetLoop([mainReceiver |-> d.mainReceiver,
                                         base_objs |-> d.base_objs, err |-> st.err],
                                        adrs, path, value, n, i + 1)
                   ELSE ListSetLoop([st EXCEPT !.err = "printed"], adrs, path, value, n, i + 1)
         ELSE ListSetLoop([st EXCEPT !.err = "printed"], adrs, path, value, n, i + 1)

\* the k-th sample (1..BlockSize) of a linear ramp from a to b
Ramp(a, b, k) == a + ((b - a) * k) \div BlockSize

\* the pending target a slot reads at the start of a block; a slot whose
\* address the receiver does not hold keeps its value
SlotTarget(s, m) ==
    IF s.address \in DOMAIN m /\ s.j < Len(m[s.address])
    THEN m[s.address][s.j + 1]
    ELSE s.previous

\* the block of samples of one slot: a ramp from the last sampled value
\* (interpolation enabled) or the constant target, scaled by mul and add
SlotBlock(s, m) ==
    [k \in 1..BlockSize |->
        (IF s.interpolation THEN Ramp(s.previous, SlotTarget(s, m), k)
         ELSE SlotTarget(s, m)) * s.mul + s.add]

\* the slot at the block boundary: steady, previous := target
SampleSlot(s, m) == [s EXCEPT !.previous = SlotTarget(s, m)]

---------------------------------------------------------------------------
(* State, history and the initial states *)

Types == {"f", "i"}
\* the (types, port) pairs given to OscDataSend and its addAddress
SendArgs == {<<"f", 9900>>, <<"i", 9901>>}

NoValue == [nested |-> FALSE, v |-> <<>>]
NoKey == [str |-> FALSE, s |-> "", i |-> 0]
NoCall ==
    [op |-> "__init__", path |-> <<>>, value |-> NoValue, key |-> NoKey, msg |-> "",
     x |-> TRUE, err |-> "none", pre |-> <<>>, ret |-> <<>>, coalesced |-> {},
     ramped |-> {}]

NoDelivery == [val |-> <<>>, pending |-> FALSE, lost |-> FALSE]

Here == [address |-> address, base_objs |-> base_objs, mainReceiver |-> mainReceiver]

\* the objects bound at construction: self._mainReceiver (OscReceive,
\* OscListReceive) or self._base_objs[0] (OscDataReceive), and self._function
Listener(c) ==
    [id |-> IF c = "OscDataSend" THEN 0 ELSE 1,
     function |-> IF c = "OscDataReceive" THEN "function" ELSE "None"]

\* the objects the attributes name after a method: addAddress, delAddress
\* and setValue call the listener in place (self._mainReceiver.addAddress(p),
\* self._base_objs[0].delAddress(index), ...) and assign none of them
SameObject_Rebuilt(l) == [l EXCEPT !.id = (l.id % 2) + 1]
SameObject(l) == l

\* the state right after OscReceive / OscListReceive / OscDataReceive (...)
Constructed(c, n, st) ==
    /\ cls = c
    /\ num = n
    /\ address = st.address
    /\ base_objs = st.base_objs
    /\ mainReceiver = st.mainReceiver
    /\ addresses = <<>>
    /\ listener = Listener(c)
    /\ sent = <<>>
    /\ delivered = [x \in Addrs |-> NoDelivery]
    /\ removed = {}
    /\ call = NoCall

InitReceive(universe, muls) ==
    \E adrs \in NonEmptySeqs(universe, MaxInit), mul \in muls :
        Constructed("OscReceive", 1, RecvInit(adrs, <<mul>>, <<0>>))

InitListReceive(universe, muls) ==
    \E adrs \in NonEmptySeqs(universe, MaxInit), mul \in muls, n \in 1..MaxNum :
        Constructed("OscListReceive", n, ListInit(adrs, n, <<mul>>, <<0>>))

InitDataReceive ==
    \E adrs \in NonEmptySeqs(Addrs, MaxInit) :
        Constructed("OscDataReceive", 0, DataInit(adrs))

InitDataSend ==
    \E adrs \in NonEmptySeqs(Addrs, MaxInit), tp \in SendArgs :
        LET st == SendInit(<<tp[1]>>, <<tp[2]>>, adrs, <<"127.0.0.1">>) IN
        /\ cls = "OscDataSend"
        /\ num = 0
        /\ address = <<>>
        /\ base_objs = st.base_objs
        /\ mainReceiver = <<>>
        /\ addresses = st.addresses
        /\ listener = Listener("OscDataSend")
        /\ sent = <<>>
        /\ delivered = [x \in Addrs |-> NoDelivery]
        /\ removed = {}
        /\ call = NoCall

Init ==
    \/ InitReceive(Addrs, Muls)
    \/ InitListReceive(Addrs, Muls)
    \/ InitDataReceive

\* history kept by addAddress and delAddress
Forget(g, S) == [x \in Addrs |-> IF x \in S THEN NoDelivery ELSE g[x]]

---------------------------------------------------------------------------
(* Actions: the registry methods of the receive side *)

\* OscReceive.addAddress(path, mul, add)
RecvAddAddress(path, mul, add) ==
    /\ cls = "OscReceive"
    /\ LET st == RecvAddLoop(Here, path, 0, mul, add) IN
       /\ address' = st.address
       /\ base_objs' = st.base_objs
       /\ mainReceiver' = st.mainReceiver
    /\ delivered' = Forget(delivered, {x \in Range(path) : ~In(x, address)})
    /\ removed' = removed \ Range(path)
    /\ call' = [NoCall EXCEPT !.op = "addAddress", !.path = path, !.pre = address]
    /\ listener' = SameObject(listener)
    /\ UNCHANGED <<cls, num, addresses, sent>>

\* OscListReceive.addAddress(path, mul, add)
ListAddAddress(path, mul, add) ==
    /\ cls = "OscListReceive"
    /\ LET st == ListAddLoop(Here, path, 0, num, mul, add) IN
       /\ address' = st.address
       /\ base_objs' = st.base_objs
       /\ mainReceiver' = st.mainReceiver
    /\ delivered' = Forget(delivered, {x \in Range(path) : ~In(x, address)})
    /\ removed' = removed \ Range(path)
    /\ call' = [NoCall EXCEPT !.op = "addAddress", !.path = path, !.pre = address]
    /\ listener' = SameObject(listener)
    /\ UNCHANGED <<cls, num, addresses, sent>>

\* OscDataReceive.addAddress(path)
DataAddAddress(path) ==
    /\ cls = "OscDataReceive"
    /\ address' = DataAddLoop(address, path, 0)
    /\ removed' = removed \ Range(path)
    /\ call' = [NoCall EXCEPT !.op = "addAddress", !.path = path, !.pre = address]
    /\ listener' = SameObject(listener)
    /\ UNCHANGED <<cls, num, base_objs, mainReceiver, addresses, sent, delivered>>

\* OscReceive.delAddress(path)
RecvDelAddress(path) ==
    /\ cls = "OscReceive"
    /\ LET st == RecvDel(Here, path) IN
       /\ address' = st.address
       /\ base_objs' = st.base_objs
       /\ mainReceiver' = st.mainReceiver
       /\ call' = [NoCall EXCEPT !.op = "delAddress", !.path = path, !.pre = address,
                                 !.err = st.err]
       /\ removed' = IF st.err = "none" THEN removed \cup Range(path) ELSE removed
    /\ delivered' = Forget(delivered, Range(path))
    /\ listener' = SameObject(listener)
    /\ UNCHANGED <<cls, num, addresses, sent>>

\* OscListReceive.delAddress(path)
ListDelAddress(path) ==
    /\ cls = "OscListReceive"
    /\ LET st == ListDel(Here, path, num) IN
       /\ address' = st.address
       /\ base_objs' = st.base_objs
       /\ mainReceiver' = st.mainReceiver
       /\ call' = [NoCall EXCEPT !.op = "delAddress", !.path = path, !.pre = address,
                                 !.err = st.err]
       /\ removed' = IF st.err = "none" THEN removed \cup Range(path) ELSE removed
    /\ delivered' = Forget(delivered, Range(path))
    /\ listener' = SameObject(listener)
    /\ UNCHANGED <<cls, num, addresses, sent>>

\* OscDataReceive.delAddress(path)
DataDelAddress(path) ==
    /\ cls = "OscDataReceive"
    /\ LET st == DataDelLoop(address, path) IN
       /\ address' = st.address
       /\ call' = [NoCall EXCEPT !.op = "delAddress", !.path = path, !.pre = address,
                                 !.err = st.err]
       /\ removed' = IF st.err = "none" THEN removed \cup Range(path) ELSE removed
    /\ listener' = SameObject(listener)
    /\ UNCHANGED <<cls, num, base_objs, mainReceiver, addresses, sent, delivered>>

\* OscReceive.__getitem__(i)
RecvGet(key) ==
    /\ cls = "OscReceive"
    /\ LET r == RecvGetItem(Here, key) IN
       call' = [NoCall EXCEPT !.op = "__getitem__", !.key = key, !.pre = address,
                              !.err = r.err, !.ret = r.ret]
    /\ UNCHANGED <<cls, num, listener, address, base_objs, mainReceiver, addresses, sent,
                   delivered, removed>>

\* OscListReceive.__getitem__(i)
ListGet(key) ==
    /\ cls = "OscListReceive"
    /\ LET r == ListGetItem(Here, key, num) IN
       call' = [NoCall EXCEPT !.op = "__getitem__", !.key = key, !.pre = address,
                              !.err = r.err, !.ret = r.ret]
    /\ UNCHANGED <<cls, num, listener, address, base_objs, mainReceiver, addresses, sent,
                   delivered, removed>>

---------------------------------------------------------------------------
(* Actions: OscDataSend *)

\* OscDataSend.addAddress(types, port, address, host)
SendAddAddress(types, port, adrs, host) ==
    /\ cls = "OscDataSend"
    /\ Len(base_objs) + Len(adrs) <= MaxTargets
    /\ LET st == SendAdd([base_objs |-> base_objs, addresses |-> addresses],
                         types, port, adrs, host) IN
       /\ base_objs' = st.base_objs
       /\ addresses' = st.addresses
    /\ sent' = <<>>
    /\ call' = [NoCall EXCEPT !.op = "addAddress", !.path = adrs]
    /\ UNCHANGED <<cls, num, listener, address, mainReceiver, delivered, removed>>

\* OscDataSend.delAddress(path)
SendDelAddress(path) ==
    /\ cls = "OscDataSend"
    /\ LET st == SendDelLoop([base_objs |-> base_objs, addresses |-> addresses], path) IN
       /\ base_objs' = st.base_objs
       /\ addresses' = st.addresses
       /\ call' = [NoCall EXCEPT !.op = "delAddress", !.path = path, !.err = st.err]
    /\ sent' = <<>>
    /\ UNCHANGED <<cls, num, listener, address, mainReceiver, delivered, removed>>

\* OscDataSend.send(msg, address)
Send(msg, adr) ==
    /\ cls = "OscDataSend"
    /\ LET r == SendMsg([base_objs |-> base_objs, addresses |-> addresses], msg, adr) IN
       /\ sent' = r.sent
       /\ call' = [NoCall EXCEPT !.op = "send", !.msg = msg, !.path = <<adr>>,
                                 !.err = r.err]
    /\ UNCHANGED <<cls, num, listener, address, base_objs, mainReceiver, addresses, delivered, removed>>

---------------------------------------------------------------------------
(* Actions: control values *)

\* history: the update (p, val) is accepted by the registry of this state
Accepted(p, val, listed) ==
    /\ listed => In(p, address)
    /\ p \in DOMAIN mainReceiver
    /\ Len(val) = num

\* history: the accepted updates among events, in order
RECURSIVE Note(_, _, _)
Note(g, events, listed) ==
    IF events = <<>> THEN g
    ELSE LET p == Head(events)[1]
             val == Head(events)[2]
         IN  IF Accepted(p, val, listed)
             THEN Note([g EXCEPT ![p] = [val |-> val, pending |-> TRUE,
                                        lost |-> g[p].lost \/ (g[p].pending /\ g[p].val # val)]],
                       Tail(events), listed)
             ELSE Note(g, Tail(events), listed)

\* OscReceive.setValue(path, value)
RecvSetValue(path, value) ==
    /\ cls = "OscReceive"
    /\ LET st == RecvSetLoop([mainReceiver |-> mainReceiver, base_objs |-> base_objs,
                              err |-> "none"], address, path, value, 0) IN
       /\ mainReceiver' = st.mainReceiver
       /\ base_objs' = st.base_objs
       /\ call' = [NoCall EXCEPT !.op = "setValue", !.err = st.err]
    /\ delivered' = Note(delivered,
                         [i \in 1..Max(Len(path), Len(value)) |->
                             <<Wrap(path, i - 1), <<Wrap(value, i - 1)>>>>], TRUE)
    /\ listener' = SameObject(listener)
    /\ UNCHANGED <<cls, num, address, addresses, sent, removed>>

\* OscListReceive.setValue(path, value)
ListSetValue(path, value) ==
    /\ cls = "OscListReceive"
    /\ LET st == ListSetLoop([mainReceiver |-> mainReceiver, base_objs |-> base_objs,
                              err |-> "none"], address, path, value, num, 0) IN
       /\ mainReceiver' = st.mainReceiver
       /\ base_objs' = st.base_objs
       /\ call' = [NoCall EXCEPT !.op = "setValue", !.err = st.err]
    /\ delivered' = Note(delivered,
                         IF Len(value.v) = 0 THEN <<>>
                         ELSE [i \in 1..Len(path) |->
                                 <<path[i], IF value.nested THEN Wrap(value.v, i - 1)
                                            ELSE value.v>>], TRUE)
    /\ listener' = SameObject(listener)
    /\ UNCHANGED <<cls, num, address, addresses, sent, removed>>

\* the network context delivers the decoded message (p, val) to the receiver
Message(p, val) ==
    /\ cls \in {"OscReceive", "OscListReceive"}
    /\ LET d == Deliver([mainReceiver |-> mainReceiver, base_objs |-> base_objs],
                        p, val, num) IN
       /\ mainReceiver' = d.mainReceiver
       /\ base_objs' = d.base_objs
    /\ call' = [NoCall EXCEPT !.op = "message"]
    /\ delivered' = Note(delivered, <<<<p, val>>>>, FALSE)
    /\ UNCHANGED <<cls, num, listener, address, addresses, sent, removed>>

\* OscReceive.setInterpolation(x)
RecvSetInterpolation(x) ==
    /\ cls = "OscReceive"
    /\ base_objs' = SetInterp(base_objs, x)
    /\ call' = [NoCall EXCEPT !.op = "setInterpolation", !.x = x]
    /\ UNCHANGED <<cls, num, listener, address, mainReceiver, addresses, sent, delivered, removed>>

\* OscListReceive.setInterpolation(x)
ListSetInterpolation(x) ==
    /\ cls = "OscListReceive"
    /\ base_objs' = SetInterp(base_objs, x)
    /\ call' = [NoCall EXCEPT !.op = "setInterpolation", !.x = x]
    /\ UNCHANGED <<cls, num, listener, address, mainReceiver, addresses, sent, delivered, removed>>

\* the render context computes one block: every slot is sampled once
Render ==
    /\ cls \in {"OscReceive", "OscListReceive"}
    /\ base_objs' = [k \in 1..Len(base_objs) |-> SampleSlot(base_objs[k], mainReceiver)]
    /\ delivered' = [x \in Addrs |-> [delivered[x] EXCEPT !.pending = FALSE, !.lost = FALSE]]
    /\ call' = [NoCall EXCEPT
                  !.op = "Render",
                  !.ret = [k \in 1..Len(base_objs) |-> SlotBlock(base_objs[k], mainReceiver)],
                  !.coalesced = {x \in Addrs : delivered[x].lost},
                  !.ramped = {base_objs[k].address : k \in
                                {h \in 1..Len(base_objs) :
                                    /\ base_objs[h].interpolation
                                    /\ SlotTarget(base_objs[h], mainReceiver)
                                         # base_objs[h].previous}}]
    /\ UNCHANGED <<cls, num, listener, address, mainReceiver, addresses, sent, removed>>

---------------------------------------------------------------------------
(* The registry specification: the receive-side classes, the methods that  *)
(* change or read the registry                                             *)

ConstVec(n, v) == [j \in 1..n |-> v]
MixedVec(n) == [j \in 1..n |-> (j % (MaxLevel + 1)) * BlockSize]

\* value lists given to OscReceive.setValue: one value, or several in a row
ValueLists == NonEmptySeqs(Values, 1) \cup {MixedVec(k) : k \in 2..MaxPath}

\* value lists of a message or of OscListReceive.setValue: of the right
\* width and not
FlatValues(n) ==
    {ConstVec(n, v) : v \in Values} \cup {MixedVec(n)} \cup
    {<<>>, ConstVec(n + 1, BlockSize)} \cup {ConstVec(k, BlockSize) : k \in 1..(n - 1)}

\* lists of lists given to OscListReceive.setValue
NestedValues(n) ==
    {<<MixedVec(n)>>, <<ConstVec(n, BlockSize), MixedVec(n)>>,
     <<ConstVec(n + 1, BlockSize), MixedVec(n)>>}

Keys(universe, lo, hi) ==
    {[str |-> TRUE, s |-> x, i |-> 0] : x \in universe} \cup
    {[str |-> FALSE, s |-> "", i |-> k] : k \in lo..hi}

Next ==
    \/ \E path \in NonEmptySeqs(Addrs, MaxPath), mul \in Muls :
          RecvAddAddress(path, <<mul>>, <<0>>)
    \/ \E path \in NonEmptySeqs(Addrs, MaxPath), mul \in Muls :
          ListAddAddress(path, <<mul>>, <<0>>)
    \/ \E path \in NonEmptySeqs(Addrs, MaxPath) : DataAddAddress(path)
    \/ \E path \in NonEmptySeqs(Addrs, MaxPath) : RecvDelAddress(path)
    \/ \E path \in NonEmptySeqs(Addrs, MaxPath) : ListDelAddress(path)
    \/ \E path \in NonEmptySeqs(Addrs, MaxPath) : DataDelAddress(path)
    \/ \E key \in Keys(Addrs, 0, Len(base_objs)) : RecvGet(key)
    \/ \E key \in Keys(Addrs, 0, Len(base_objs)) : ListGet(key)
    \/ \E p \in Addrs, v \in Values : RecvSetValue(<<p>>, <<v>>)
    \/ \E p \in Addrs, v \in FlatValues(num) :
          ListSetValue(<<p>>, [nested |-> FALSE, v |-> v])

Spec == Init /\ [][Next]_vars

---------------------------------------------------------------------------
(* The send specification: an OscDataSend *)

NextSend ==
    \/ \E adrs \in NonEmptySeqs(Addrs, MaxPath), tp \in SendArgs :
          SendAddAddress(<<tp[1]>>, <<tp[2]>>, adrs, <<"127.0.0.1">>)
    \/ \E path \in NonEmptySeqs(Addrs, MaxPath) : SendDelAddress(path)
    \/ \E msg \in Types, adr \in Addrs \cup {"None"} : Send(msg, adr)

SpecSend == InitDataSend /\ [][NextSend]_vars

---------------------------------------------------------------------------
(* The value specification: an OscReceive with its control values moving   *)

InitVal == InitReceive(Addrs, {1})

NextVal ==
    \/ \E path \in NonEmptySeqs(Addrs, MaxPath) : RecvAddAddress(path, <<1>>, <<0>>)
    \/ \E path \in NonEmptySeqs(Addrs, MaxPath) : RecvDelAddress(path)
    \/ \E path \in NonEmptySeqs(Addrs, MaxPath), value \in ValueLists :
          RecvSetValue(path, value)
    \/ \E p \in Addrs, val \in FlatValues(num) : Message(p, val)
    \/ \E x \in BOOLEAN : RecvSetInterpolation(x)
    \/ Render

SpecVal == InitVal /\ [][NextVal]_vars

---------------------------------------------------------------------------
(* The vector specification: an OscListReceive with its values moving      *)

InitList ==
    \E adrs \in NonEmptySeqs(Addrs, 1) :
        Constructed("OscListReceive", MaxNum, ListInit(adrs, MaxNum, <<1>>, <<0>>))

NextList ==
    \/ \E path \in NonEmptySeqs(Addrs, MaxPath) : ListAddAddress(path, <<1>>, <<0>>)
    \/ \E path \in NonEmptySeqs(Addrs, MaxPath) : ListDelAddress(path)
    \/ \E path \in NonEmptySeqs(Addrs, 1), v \in FlatValues(num) :
          ListSetValue(path, [nested |-> FALSE, v |-> v])
    \/ \E path \in NonEmptySeqs(Addrs, MaxPath), v \in {<<>>, MixedVec(num)} :
          Len(path) > 1 /\ ListSetValue(path, [nested |-> FALSE, v |-> v])
    \/ \E path \in NonEmptySeqs(Addrs, MaxPath), v \in NestedValues(num) :
          ListSetValue(path, [nested |-> TRUE, v |-> v])
    \/ \E p \in Addrs, val \in FlatValues(num) : Message(p, val)
    \/ \E x \in BOOLEAN : ListSetInterpolation(x)
    \/ Render

SpecList == InitList /\ [][NextList]_vars

---------------------------------------------------------------------------
(* Vocabulary of the properties *)

ReceiveSide == {"OscReceive", "OscListReceive", "OscDataReceive"}
SlotSide == {"OscReceive", "OscListReceive"}

NoDuplicates(s) == \A i, k \in 1..Len(s) : s[i] = s[k] => i = k

\* the entries of s that are not in S, in their order
RECURSIVE Without(_, _)
Without(s, S) ==
    IF s = <<>> THEN <<>>
    ELSE IF Head(s) \in S THEN Without(Tail(s), S)
    ELSE <<Head(s)>> \o Without(Tail(s), S)

\* the slots of objs whose address is not in S, in their order
RECURSIVE SlotsWithout(_, _)
SlotsWithout(objs, S) ==
    IF objs = <<>> THEN <<>>
    ELSE IF Head(objs).address \in S THEN SlotsWithout(Tail(objs), S)
    ELSE <<Head(objs)>> \o SlotsWithout(Tail(objs), S)

\* the entries of path that are not in adrs, each once, in order of first occurrence
RECURSIVE NewEntries(_, _)
NewEntries(path, adrs) ==
    IF path = <<>> THEN <<>>
    ELSE IF In(Head(path), adrs) THEN NewEntries(Tail(path), adrs)
    ELSE <<Head(path)>> \o NewEntries(Tail(path), Append(adrs, Head(path)))

\* the registry is in order: no address twice, num slots per address in the
\* order of the address list, the receiver holds exactly the listed addresses
Consistent ==
    /\ NoDuplicates(address)
    /\ Len(base_objs) = num * Len(address)
    /\ \A k \in 1..Len(base_objs) :
          /\ base_objs[k].address = address[((k - 1) \div num) + 1]
          /\ base_objs[k].j = (k - 1) % num
    /\ DOMAIN mainReceiver = Range(address)

---------------------------------------------------------------------------
(* C1: on an OscReceive or OscListReceive whose registry is in order,      *)
(* delAddress(path) with a list of distinct registered addresses, in any   *)
(* order, raises no error, removes exactly those addresses and their slots *)
(* (from the address list, the slot list and the receiver) and keeps the   *)
(* others in their order.                                                  *)
C1_DelRemovesExactly ==
    [][(/\ cls \in SlotSide
        /\ call'.op = "delAddress"
        /\ Consistent
        /\ NoDuplicates(call'.path)
        /\ \A k \in 1..Len(call'.path) : In(call'.path[k], address))
       => (/\ call'.err = "none"
           /\ address' = Without(address, Range(call'.path))
           /\ base_objs' = SlotsWithout(base_objs, Range(call'.path))
           /\ DOMAIN mainReceiver' = (DOMAIN mainReceiver) \ Range(call'.path))]_vars

(* C2: on a receive-side object, delAddress(path) with a path that holds   *)
(* an address that is not registered changes nothing: the address list,    *)
(* the slot list and the receiver's registrations are as before the call.  *)
C2_DelUnknownNoOp ==
    [][(/\ cls \in ReceiveSide
        /\ call'.op = "delAddress"
        /\ \E k \in 1..Len(call'.path) : ~In(call'.path[k], address))
       => (/\ address' = address
           /\ base_objs' = base_objs
           /\ mainReceiver' = mainReceiver)]_vars

(* C3: on a receive-side object, addAddress(path) raises nothing, leaves   *)
(* every registered address, its slots (mul and add included) and its      *)
(* pending target as they were, skips the entries of path that are already *)
(* registered and appends the new ones, each once, with num fresh slots.   *)
C3_AddSkipsRegistered ==
    [][(cls \in ReceiveSide /\ call'.op = "addAddress")
       => LET new == NewEntries(call'.path, address) IN
          /\ call'.err = "none"
          /\ address' = address \o new
          /\ Len(base_objs') = Len(base_objs) + num * Len(new)
          /\ \A k \in 1..Len(base_objs) : base_objs'[k] = base_objs[k]
          /\ \A k \in 1..(num * Len(new)) :
                base_objs'[Len(base_objs) + k].address = new[((k - 1) \div num) + 1]
          /\ cls \in SlotSide =>
                /\ DOMAIN mainReceiver' = (DOMAIN mainReceiver) \cup Range(new)
                /\ \A x \in (DOMAIN mainReceiver) \ Range(new) :
                      mainReceiver'[x] = mainReceiver[x]]_vars

\* an addAddress of a vector receiver whose path held a registered and a new address
C3_Witness ==
    /\ cls = "OscListReceive"
    /\ num = 2
    /\ call.op = "addAddress"
    /\ Len(call.path) = 2
    /\ In(call.path[1], call.pre)
    /\ ~In(call.path[2], call.pre)
    /\ address = Append(call.pre, call.path[2])

(* C4: the address list of a receive-side object never holds an address    *)
(* twice.                                                                  *)
C4_AddressesUnique == cls \in ReceiveSide => NoDuplicates(address)

\* x is live in the state st: listed, held by the receiver, and with a slot
Live(x, st) ==
    /\ In(x, st.address)
    /\ x \in DOMAIN st.mainReceiver
    /\ \E k \in 1..Len(st.base_objs) : st.base_objs[k].address = x

\* x is registered: listed and held by the receiver
Registered(x) == In(x, address) /\ x \in DOMAIN mainReceiver

(* C5: once delAddress has named x, an update for x (a network message or  *)
(* setValue) changes no slot and no registration; a later addAddress(x)    *)
(* makes x live again, with a fresh target and fresh slots that hold       *)
(* nothing delivered before it.                                            *)
C5_Reconfiguration ==
    [][/\ \A x \in removed :
            /\ \A val \in FlatValues(num) :
                  Message(x, val) => UNCHANGED <<address, base_objs, mainReceiver>>
            /\ \A value \in ValueLists :
                  RecvSetValue(<<x>>, value) => UNCHANGED <<address, base_objs, mainReceiver>>
       /\ \A path \in NonEmptySeqs(Addrs, MaxPath) :
             RecvAddAddress(path, <<1>>, <<0>>) =>
                \A x \in Range(path) \cap removed :
                   /\ Live(x, [address |-> address', base_objs |-> base_objs',
                               mainReceiver |-> mainReceiver'])
                   /\ mainReceiver'[x] = InitTarget(num)
                   /\ delivered'[x] = NoDelivery
                   /\ \A k \in 1..Len(base_objs') :
                         base_objs'[k].address = x => base_objs'[k].previous = 0]_vars

(* C6: the pending target of an address is always the most recent update   *)
(* accepted for it, nothing else is kept; a block rendered after several   *)
(* updates is the block of the most recent one alone and leaves the slot   *)
(* at that value.                                                          *)
C6_LastWriterWins ==
    [][cls = "OscReceive" =>
       /\ \A x \in Addrs :
             delivered'[x].val # <<>> =>
                x \in DOMAIN mainReceiver' /\ mainReceiver'[x] = delivered'[x].val
       /\ call'.op = "Render" =>
             \A k \in 1..Len(base_objs) :
                LET s == base_objs[k]
                    g == delivered[s.address]
                IN  g.lost =>
                       /\ base_objs'[k].previous = g.val[s.j + 1]
                       /\ call'.ret[k][BlockSize] = g.val[s.j + 1] * s.mul + s.add
                       /\ ~s.interpolation =>
                             \A i \in 1..BlockSize :
                                call'.ret[k][i] = g.val[s.j + 1] * s.mul + s.add]_vars

\* a block rendered after an update overwrote a different pending one
C6_Witness ==
    /\ cls = "OscReceive"
    /\ call.op = "Render"
    /\ \E k \in 1..Len(base_objs) :
          /\ base_objs[k].address \in call.coalesced
          /\ delivered[base_objs[k].address].val = <<base_objs[k].previous>>
          /\ call.ret[k][BlockSize] = base_objs[k].previous

C8_ArityEnforced ==
    [][cls = "OscListReceive" =>
       \A x \in Addrs : Registered(x) =>
          \A v \in FlatValues(num) :
             /\ Message(x, v) =>
                   IF Len(v) = num
                   THEN mainReceiver' = [mainReceiver EXCEPT ![x] = v]
                   ELSE UNCHANGED <<address, base_objs, mainReceiver>>
             /\ ListSetValue(<<x>>, [nested |-> FALSE, v |-> v]) =>
                   IF Len(v) = num
                   THEN call'.err = "none" /\ mainReceiver' = [mainReceiver EXCEPT ![x] = v]
                   ELSE /\ call'.err = "printed"
                        /\ UNCHANGED <<address, base_objs, mainReceiver>>]_vars

(* C9: a lookup on an OscListReceive either raises or reports an error, or *)
(* returns exactly num slots that all belong to one registered address     *)
(* (the address asked for, when the key is an address).                    *)
C9_LookupValidated ==
    (cls = "OscListReceive" /\ call.op = "__getitem__")
    => \/ call.err # "none"
       \/ /\ Len(call.ret) = num
          /\ \E x \in Range(address) :
                /\ \A k \in 1..Len(call.ret) : call.ret[k].address = x
                /\ call.key.str => x = call.key.s

RECURSIVE Arrivals(_, _, _)
Arrivals(st, events, n) ==
    IF events = <<>> THEN st
    ELSE Arrivals(Deliver(st, Head(events)[1], Head(events)[2], n), Tail(events), n)

\* the rounds of a setValue call whose address is in the address list
Listed(events) == SelectSeq(events, LAMBDA e : In(e[1], address))

\* a setValue step with an unlisted address in path: reported, nothing
\* raised, the registry untouched, and the receiver and the slots as after
\* the arrivals of the listed rounds
SkipsUnknown(path, events) ==
    (\E k \in 1..Len(path) : ~In(path[k], address))
    => /\ call'.err = "printed"
       /\ address' = address
       /\ DOMAIN mainReceiver' = DOMAIN mainReceiver
       /\ [mainReceiver |-> mainReceiver', base_objs |-> base_objs']
             = Arrivals([mainReceiver |-> mainReceiver, base_objs |-> base_objs],
                        Listed(events), num)

(* C11: setValue(path, value) with an address in path that is not in the   *)
(* address list prints an error, raises nothing and leaves the registry as *)
(* it was; the listed addresses of path get their values exactly as if     *)
(* each had arrived from the network, wherever the unlisted ones stand.    *)
C11_UnknownPathSkipped ==
    [][\A path \in NonEmptySeqs(Addrs, MaxPath) :
          /\ \A value \in ValueLists :
                RecvSetValue(path, value) =>
                   SkipsUnknown(path, [i \in 1..Max(Len(path), Len(value)) |->
                                         <<Wrap(path, i - 1), <<Wrap(value, i - 1)>>>>])
          /\ \A v \in FlatValues(num) :
                ListSetValue(path, [nested |-> FALSE, v |-> v]) =>
                   SkipsUnknown(path, [i \in 1..Len(path) |-> <<path[i], v>>])
          /\ \A v \in NestedValues(num) :
                ListSetValue(path, [nested |-> TRUE, v |-> v]) =>
                   SkipsUnknown(path, [i \in 1..Len(path) |->
                                         <<path[i], Wrap(v, i - 1)>>])]_vars

C13_RegistryAligned ==
    (cls \in SlotSide)
    => /\ Len(base_objs) = num * Len(address)
       /\ \A k \in 1..Len(base_objs) :
             /\ (k - 1) \div num < Len(address)
             /\ base_objs[k].address = address[((k - 1) \div num) + 1]
             /\ base_objs[k].j = (k - 1) % num
       /\ DOMAIN mainReceiver = Range(address)

(* C14: every target of the list a broadcast of an OscDataSend goes through *)
(* is the value of exactly one key of the address map, and after a         *)
(* delAddress(path) that returned no target with an address of path is     *)
(* left in that list.                                                      *)
C14_TargetsMapped ==
    (cls = "OscDataSend")
    => /\ \A k \in 1..Len(base_objs) :
             Cardinality({x \in DOMAIN addresses : addresses[x] = base_objs[k]}) = 1
       /\ (call.op = "delAddress" /\ call.err = "none") =>
             \A k \in 1..Len(base_objs) : ~In(base_objs[k].address, call.path)

(* C15: setInterpolation(x) puts every slot of an OscReceive or            *)
(* OscListReceive in mode x, and the slots of an addAddress that follows   *)
(* it are in mode x as well.                                               *)
C15_InterpolationUniform ==
    [][(cls \in SlotSide) =>
       /\ (call'.op = "setInterpolation") =>
             \A k \in 1..Len(base_objs') : base_objs'[k].interpolation = call'.x
       /\ (call.op = "setInterpolation" /\ call'.op = "addAddress") =>
             \A k \in 1..Len(base_objs') : base_objs'[k].interpolation = call.x]_vars

====
